---- MODULE Spec2Model ----
(***************************************************************************)
(* Resume screening application (src/app.py): text extraction through a   *)
(* temporary file, text cleaning, the remote analysis request, parsing of *)
(* the numbered reply and the batch screening loop with its result        *)
(* display.                                                                *)
(*                                                                         *)
(* Strings are sequences of characters.  A label of the reply format      *)
(* ("1. Candidate Name:" ...) and a fixed message of the program are one  *)
(* element each: the regular expressions of the program only ever match a *)
(* label as a whole.                                                       *)
(***************************************************************************)
EXTENDS Integers, Sequences, FiniteSets

VARIABLES
    pc,             \* position of the running call / of the button handler
    uploaded_files, \* st.file_uploader value: the batch, in upload order
    idx,            \* position of the for loop in uploaded_files (0 = not started)
    uploaded_file,  \* the document of the current extract_resume_text call
    temp_files,     \* temporary files present on disk
    text,           \* extract_resume_text: local variable text / returned value
    exc,            \* exception in flight ("none" when there is none)
    resume_text,    \* loop variable resume_text; input of clean_text
    cleaned_text,   \* loop variable cleaned_text; result of clean_text
    recleaned,      \* result of clean_text applied to cleaned_text
    response,       \* argument of parse_analysis_response
    parsed,         \* result of parse_analysis_response
    results,        \* list results of the screening loop
    toasts,         \* st.toast calls: filenames, in call order
    st_errors,      \* st.error calls made by the loop body: filenames
    successful,     \* reports rendered by the display step, in display order
    errors          \* failed records rendered by the display step

vars == <<pc, uploaded_files, idx, uploaded_file, temp_files, text, exc,
          resume_text, cleaned_text, recleaned, response, parsed, results,
          toasts, st_errors, successful, errors>>

---------------------------------------------------------------------------
(* Bounds *)

MaxTextLen == 5
MaxRespLen == 4
MaxDocs == 3

---------------------------------------------------------------------------
(* Characters *)

NL == "\n"
SP == " "
DASH == "EN DASH"      \* the character U+2013, outside the allow-list
BULLET == "BULLET"     \* the character U+2022, inside the allow-list

Whitespace == {SP, NL}
DigitChars == {"0", "1", "2", "3", "4", "5", "6", "7", "8", "9"}
WordChars == {"a", "b"} \cup DigitChars
AllowedPunct == {"@", "-", ".", ",", BULLET, "#", "&", "+", "/", "(", ")"}

IsSpace(c) == c \in Whitespace

Max(S) == CHOOSE n \in S : \A m \in S : m <= n
Min(S) == CHOOSE n \in S : \A m \in S : n <= m

\* length of the run of s that starts at position i and ends before the
\* first position of stops at or after i (at the end of s when there is none)
RunBefore(s, i, stops) ==
    LET after == {j \in stops : j >= i}
    IN  IF after = {} THEN Len(s) - i + 1 ELSE Min(after) - i

NonSpaces(s) == {j \in 1..Len(s) : ~IsSpace(s[j])}

\* Python str.strip(): leading and trailing whitespace removed
Strip(s) ==
    IF NonSpaces(s) = {} THEN <<>>
    ELSE SubSeq(s, Min(NonSpaces(s)), Max(NonSpaces(s)))

---------------------------------------------------------------------------
(* clean_text *)

\* re.sub(r'\s+', ' ', text): every maximal run of whitespace becomes one
\* space: its first character is replaced by a space, the others go
NormalizeWhitespace(s) ==
    LET marked == [i \in 1..Len(s) |->
                      IF ~IsSpace(s[i]) THEN <<s[i]>>
                      ELSE IF i > 1 /\ IsSpace(s[i - 1]) THEN <<>>
                      ELSE <<SP>>]
        kept == SelectSeq(marked, LAMBDA m : m # <<>>)
    IN  [k \in 1..Len(kept) |-> kept[k][1]]

\* the character class [^\w\s@\-.,...()] matches what is NOT kept
Kept(c) == c \in WordChars \/ IsSpace(c) \/ c \in AllowedPunct

\* re.sub(r'[^\w\s@\-.,...()]', '', text)
KeepCommonChars(s) == SelectSeq(s, Kept)

clean_text(t) ==
    IF t = <<>> THEN <<>>
    ELSE Strip(KeepCommonChars(NormalizeWhitespace(t)))

---------------------------------------------------------------------------
(* parse_analysis_response *)

LabelName == "1. Candidate Name:"
LabelNameUpper == "1. CANDIDATE NAME:"
LabelScore == "2. Match Score:"
LabelFound == "3. Key Skills Found:"
LabelMissing == "4. Missing Skills:"
LabelExperience == "5. Years of Experience:"
LabelEducation == "6. Education:"
LabelVerdict == "7. Verdict:"

NotFound == <<"Not found">>

\* keys of the dict patterns, in its order
Fields == <<"name", "score", "found_skills", "missing_skills", "experience",
            "education", "verdict">>
StringFields == {"name", "found_skills", "missing_skills", "experience",
                 "education", "verdict"}

\* the literal text each pattern starts with
Label(f) ==
    CASE f = "name" -> LabelName
      [] f = "score" -> LabelScore
      [] f = "found_skills" -> LabelFound
      [] f = "missing_skills" -> LabelMissing
      [] f = "experience" -> LabelExperience
      [] f = "education" -> LabelEducation
      [] f = "verdict" -> LabelVerdict

\* str.lower() / case folding of re.IGNORECASE
Lower(c) ==
    CASE c = LabelNameUpper -> "1. candidate name:"
      [] c = LabelName -> "1. candidate name:"
      [] c = ".PDF" -> ".pdf"
      [] c = ".DOCX" -> ".docx"
      [] OTHER -> c

\* what one step of the group of the pattern accepts: \d for the score,
\* "." (anything but a newline) for the other fields
GroupChar(f, c) == IF f = "score" THEN c \in DigitChars ELSE c # NL

\* number of consecutive whitespace characters of s from position i on
SpaceRun(s, i) == RunBefore(s, i, NonSpaces(s))

\* number of consecutive characters of s from position i on that the group of
\* the pattern of f accepts
GroupRun(s, i, f) == RunBefore(s, i, {j \in 1..Len(s) : ~GroupChar(f, s[j])})

\* the pattern of field f tried with its label at position i: where group 1
\* starts, 0 when there is no match at i.  "\s*" is greedy and gives back one
\* character at a time until the group can start.
GroupStart(s, i, f) ==
    IF Lower(s[i]) # Lower(Label(f)) THEN 0
    ELSE LET w == SpaceRun(s, i + 1)
             ks == {k \in 0..w : i + 1 + k <= Len(s) /\ GroupChar(f, s[i + 1 + k])}
         IN  IF ks = {} THEN 0 ELSE i + 1 + Max(ks)

\* re.search(pattern, response, re.IGNORECASE): the leftmost match
Search(s, f) ==
    LET hits == {i \in 1..Len(s) : GroupStart(s, i, f) # 0}
    IN  IF hits = {} THEN [matched |-> FALSE, group1 |-> <<>>]
        ELSE LET start == GroupStart(s, Min(hits), f)
                 n == GroupRun(s, start, f)
             IN  [matched |-> TRUE, group1 |-> SubSeq(s, start, start + n - 1)]

DigitValue(c) ==
    CASE c = "0" -> 0 [] c = "1" -> 1 [] c = "2" -> 2 [] c = "3" -> 3
      [] c = "4" -> 4 [] c = "5" -> 5 [] c = "6" -> 6 [] c = "7" -> 7
      [] c = "8" -> 8 [] c = "9" -> 9

RECURSIVE DecimalValue(_)
DecimalValue(s) ==
    IF s = <<>> THEN 0
    ELSE 10 * DecimalValue(SubSeq(s, 1, Len(s) - 1)) + DigitValue(s[Len(s)])

\* try: int(text) except ValueError: 0
IntOrZero(s) ==
    IF s # <<>> /\ \A k \in 1..Len(s) : s[k] \in DigitChars
    THEN DecimalValue(s) ELSE 0

\* the loop over patterns stopped by the first pattern that does not match
StopAtFirstMiss(resp) ==
    LET firstMiss == Min({k \in 1..Len(Fields) : ~Search(resp, Fields[k]).matched}
                         \cup {Len(Fields) + 1})
        before(f) == \E k \in 1..(firstMiss - 1) : Fields[k] = f
        str(f) == IF before(f) THEN Strip(Search(resp, f).group1) ELSE NotFound
    IN  [name |-> str("name"),
         score |-> IF before("score")
                   THEN IntOrZero(Strip(Search(resp, "score").group1)) ELSE 0,
         found_skills |-> str("found_skills"),
         missing_skills |-> str("missing_skills"),
         experience |-> str("experience"),
         education |-> str("education"),
         verdict |-> str("verdict"),
         raw_response |-> resp]

\* the loop over patterns, for one string field
FieldValue(resp, f) ==
    LET m == Search(resp, f)
    IN  IF m.matched THEN Strip(m.group1) ELSE NotFound

\* the score: the stripped group when matched, then int(); int(0) otherwise
ScoreValue(resp) ==
    LET m == Search(resp, "score")
    IN  IF m.matched THEN IntOrZero(Strip(m.group1)) ELSE 0

parse_analysis_response(resp) ==
    [name |-> FieldValue(resp, "name"),
     score |-> ScoreValue(resp),
     found_skills |-> FieldValue(resp, "found_skills"),
     missing_skills |-> FieldValue(resp, "missing_skills"),
     experience |-> FieldValue(resp, "experience"),
     education |-> FieldValue(resp, "education"),
     verdict |-> FieldValue(resp, "verdict"),
     raw_response |-> resp]

---------------------------------------------------------------------------
(* extract_text_from_pdf, extract_text_from_docx, analyze_resume *)

\* os.path.splitext(uploaded_file.name.lower())
Extension(doc) == Lower(doc.name.ext)

\* the text the PDF libraries (pdfplumber, then OCR) give for the document;
\* any Exception is caught and gives ""
extract_text_from_pdf(doc) == IF doc.fault = "corrupt" THEN <<>> ELSE doc.raw

\* the paragraphs joined by newlines; any Exception is caught and gives ""
extract_text_from_docx(doc) == IF doc.fault = "corrupt" THEN <<>> ELSE doc.raw

\* the if/elif/else of the try block
TextByExtension(doc) ==
    IF Extension(doc) = ".pdf" THEN extract_text_from_pdf(doc)
    ELSE IF Extension(doc) = ".docx" THEN extract_text_from_docx(doc)
    ELSE <<>>

\* the temporary file of the call for doc
TempPath(doc) == [id |-> doc.name.stem, suffix |-> Extension(doc)]

\* reply is what the completion endpoint does with the request: it answers
\* with a body (ok) or the call raises with a message (body)
analyze_resume(t, reply) ==
    IF Strip(t) = <<>> THEN <<"Error: Empty resume text">>
    ELSE IF reply.ok THEN Strip(reply.body)
    ELSE <<"Error in analysis: ">> \o reply.body

\* successful.sort(key=lambda x: x["score"], reverse=True): stable
RECURSIVE InsertByScore(_, _)
InsertByScore(s, r) ==
    IF s = <<>> THEN <<r>>
    ELSE IF Head(s).score >= r.score THEN <<Head(s)>> \o InsertByScore(Tail(s), r)
    ELSE <<r>> \o s

\* the sort without reverse=True
RECURSIVE SortByScoreAsc(_)
SortByScoreAsc(s) ==
    IF s = <<>> THEN <<>>
    ELSE LET rest == SortByScoreAsc(Tail(s))
             lower == SelectSeq(rest, LAMBDA r : r.score < Head(s).score)
             other == SelectSeq(rest, LAMBDA r : r.score >= Head(s).score)
         IN  lower \o <<Head(s)>> \o other

RECURSIVE SortByScoreDesc(_)
SortByScoreDesc(s) ==
    IF s = <<>> THEN <<>>
    ELSE InsertByScore(SortByScoreDesc(SubSeq(s, 1, Len(s) - 1)), s[Len(s)])

IsError(r) == "error" \in DOMAIN r

---------------------------------------------------------------------------
(* Inputs *)

RECURSIVE SeqsUpTo(_, _)
SeqsUpTo(S, n) ==
    IF n = 0 THEN {<<>>}
    ELSE LET shorter == SeqsUpTo(S, n - 1)
         IN  shorter \cup {Append(s, c) : s \in {t \in shorter : Len(t) = n - 1}, c \in S}

TextChars == {"a", SP, NL, DASH}

NoDoc == [name |-> <<>>]
NoResult == [raw_response |-> <<>>]

---------------------------------------------------------------------------
(* Specification of clean_text: applied to a text, then to its own result *)

InitClean ==
    /\ pc = "clean"
    /\ resume_text \in SeqsUpTo(TextChars, MaxTextLen)
    /\ uploaded_files = <<>> /\ idx = 0 /\ uploaded_file = NoDoc
    /\ temp_files = {} /\ text = <<>> /\ exc = "none"
    /\ cleaned_text = <<>> /\ recleaned = <<>>
    /\ response = <<>> /\ parsed = NoResult /\ results = <<>>
    /\ toasts = <<>> /\ st_errors = <<>> /\ successful = <<>> /\ errors = <<>>

Clean ==
    /\ pc = "clean"
    /\ cleaned_text' = clean_text(resume_text)
    /\ pc' = "reclean"
    /\ UNCHANGED <<uploaded_files, idx, uploaded_file, temp_files, text, exc,
                   resume_text, recleaned, response, parsed, results, toasts,
                   st_errors, successful, errors>>

CleanAgain ==
    /\ pc = "reclean"
    /\ recleaned' = clean_text(cleaned_text)
    /\ pc' = "cleaned"
    /\ UNCHANGED <<uploaded_files, idx, uploaded_file, temp_files, text, exc,
                   resume_text, cleaned_text, response, parsed, results, toasts,
                   st_errors, successful, errors>>

NextClean == Clean \/ CleanAgain

SpecClean == InitClean /\ [][NextClean]_vars

\* C6: clean_text is idempotent: cleaning the result of clean_text gives the
\* same text again (so one call leaves no run of two spaces).
C6_CleanTextIdempotent ==
    pc = "cleaned" => recleaned = cleaned_text

---------------------------------------------------------------------------
(* Specification of parse_analysis_response *)

\* the reply format of the prompt: one line per field, "<label> <value>"
Line(f, value) == <<Label(f), SP>> \o value

RECURSIVE JoinLines(_)
JoinLines(ls) ==
    IF ls = <<>> THEN <<>>
    ELSE IF Len(ls) = 1 THEN ls[1]
    ELSE ls[1] \o <<NL>> \o JoinLines(Tail(ls))

\* values of the seven lines of a well-formed reply
WellFormedValues ==
    [name : {<<"a">>, <<"a", SP, "b">>},
     score : {<<"8", "7">>, <<"5">>},
     found_skills : {<<"a", ",", SP, "b">>},
     missing_skills : {<<"b">>},
     experience : {<<"5">>},
     education : {<<"b", "a">>},
     verdict : {<<"a", "a">>}]

\* the well-formed reply with values v, without the lines of the fields in removed
ReplyWithout(v, removed) ==
    JoinLines(LET kept == SelectSeq(Fields, LAMBDA f : f \notin removed)
              IN  [k \in 1..Len(kept) |-> Line(kept[k], v[kept[k]])])

FieldSet == {Fields[k] : k \in 1..Len(Fields)}

WellFormedReplies ==
    {ReplyWithout(v, removed) : v \in WellFormedValues, removed \in SUBSET FieldSet}

ParseChars == {LabelName, LabelNameUpper, LabelScore, SP, NL, "a", "0", "1", "5"}

InitParse ==
    /\ pc = "parse"
    /\ response \in SeqsUpTo(ParseChars, MaxRespLen) \cup WellFormedReplies
    /\ parsed = NoResult
    /\ uploaded_files = <<>> /\ idx = 0 /\ uploaded_file = NoDoc
    /\ temp_files = {} /\ text = <<>> /\ exc = "none"
    /\ resume_text = <<>> /\ cleaned_text = <<>> /\ recleaned = <<>>
    /\ results = <<>>
    /\ toasts = <<>> /\ st_errors = <<>> /\ successful = <<>> /\ errors = <<>>

Parse ==
    /\ pc = "parse"
    /\ parsed' = parse_analysis_response(response)
    /\ pc' = "parsed"
    /\ UNCHANGED <<uploaded_files, idx, uploaded_file, temp_files, text, exc,
                   resume_text, cleaned_text, recleaned, response, results,
                   toasts, st_errors, successful, errors>>

NextParse == Parse

SpecParse == InitParse /\ [][NextParse]_vars

\* C3: the score of every report is an integer from 0 to 100; a captured
\* value outside that range gives 0.
C3_ScoreInRange ==
    pc = "parsed" => parsed.score \in 0..100

\* the rest of the line after the label at position i
RestOfLine(s, i) ==
    SubSeq(s, i + 1, i + RunBefore(s, i + 1, {j \in 1..Len(s) : s[j] = NL}))

\* positions where the label of f starts a line
LineStarts(s, f) ==
    {i \in 1..Len(s) : Lower(s[i]) = Lower(Label(f)) /\ (i = 1 \/ s[i - 1] = NL)}

\* C8: a string field holds the trimmed rest of a line that starts with its
\* label (empty when only whitespace follows the label on that line; a label
\* with nothing at all after it may leave the default), and keeps its default
\* when no line starts with the label: never text of a following line.
C8_ValueFromLabelLine ==
    pc = "parsed" =>
        \A f \in StringFields :
            IF LineStarts(response, f) = {}
            THEN parsed[f] = NotFound
            ELSE \E i \in LineStarts(response, f) :
                    \/ parsed[f] = Strip(RestOfLine(response, i))
                    \/ RestOfLine(response, i) = <<>> /\ parsed[f] = NotFound

\* what the claim C7 expects of the report for ReplyWithout(v, removed)
ExpectedReport(v, removed) ==
    [f \in FieldSet \cup {"raw_response"} |->
        IF f = "raw_response" THEN ReplyWithout(v, removed)
        ELSE IF f \in removed THEN (IF f = "score" THEN 0 ELSE NotFound)
        ELSE IF f = "score" THEN DecimalValue(v[f])
        ELSE v[f]]

\* C7: for a well-formed reply with the lines of any set of fields removed,
\* each removed field has its default, every other field the value of its own
\* line, and raw_response is the input.
C7_FieldsIndependent ==
    (pc = "parsed" /\ response \in WellFormedReplies) =>
        \A v \in WellFormedValues, removed \in SUBSET FieldSet :
            response = ReplyWithout(v, removed) => parsed = ExpectedReport(v, removed)

\* a reply that lost some lines but not all has been parsed
C7_Witness ==
    /\ pc = "parsed"
    /\ \E v \in WellFormedValues, removed \in SUBSET FieldSet :
        /\ removed # {} /\ removed # FieldSet
        /\ "score" \notin removed /\ "verdict" \notin removed /\ "name" \in removed
        /\ response = ReplyWithout(v, removed)

---------------------------------------------------------------------------
(* extract_resume_text *)

\* splitext, then NamedTemporaryFile(delete=False, suffix=extension) creates
\* the file on disk
CreateTempFile ==
    /\ pc = "extract"
    /\ temp_files' = temp_files \cup {TempPath(uploaded_file)}
    /\ pc' = "extract_write"
    /\ UNCHANGED <<uploaded_files, idx, uploaded_file, text, exc, resume_text,
                   cleaned_text, recleaned, response, parsed, results, toasts,
                   st_errors, successful, errors>>

\* temp_file.write(uploaded_file.read()) inside the with block, which closes
\* the file and, with delete=False, leaves it on disk; a failing read or
\* write propagates out of the function from here
WriteTempFile ==
    /\ pc = "extract_write"
    /\ IF uploaded_file.fault = "write"
       THEN exc' = "OSError" /\ pc' = "raised"
       ELSE exc' = exc /\ pc' = "extract_try"
    /\ UNCHANGED <<uploaded_files, idx, uploaded_file, temp_files, text,
                   resume_text, cleaned_text, recleaned, response, parsed,
                   results, toasts, st_errors, successful, errors>>

\* the try block; the extractors report what they catch with st.error, and
\* only an interrupt of the script gets out of them
ExtractByExtension ==
    /\ pc = "extract_try"
    /\ IF uploaded_file.fault = "interrupt" /\ Extension(uploaded_file) \in {".pdf", ".docx"}
       THEN exc' = "Interrupt" /\ UNCHANGED <<text, st_errors>>
       ELSE /\ text' = TextByExtension(uploaded_file)
            /\ exc' = exc
            /\ st_errors' =
                 IF uploaded_file.fault = "corrupt" /\ Extension(uploaded_file) \in {".pdf", ".docx"}
                 THEN Append(st_errors, [kind |-> "extraction", filename |-> uploaded_file.name])
                 ELSE st_errors
    /\ pc' = "extract_finally"
    /\ UNCHANGED <<uploaded_files, idx, uploaded_file, temp_files, resume_text,
                   cleaned_text, recleaned, response, parsed, results, toasts,
                   successful, errors>>

\* finally: os.unlink(temp_path); then return text, or the exception goes on
UnlinkTempFile ==
    /\ pc = "extract_finally"
    /\ temp_files' = temp_files \ {TempPath(uploaded_file)}
    /\ pc' = IF exc = "none" THEN "extracted" ELSE "raised"
    /\ UNCHANGED <<uploaded_files, idx, uploaded_file, text, exc, resume_text,
                   cleaned_text, recleaned, response, parsed, results, toasts,
                   st_errors, successful, errors>>

RawTexts == {<<>>, <<DASH>>, <<"a", SP, DASH, SP, "b">>}

OkReply(body) == [ok |-> TRUE, body |-> body]
FailedReply == [ok |-> FALSE, body |-> <<"a">>]

\* documents handed to extract_resume_text directly: any extension
AnyExtension == {".pdf", ".PDF", ".docx", ".txt", ""}

InitExtract ==
    /\ pc = "extract"
    /\ uploaded_file \in [name : [stem : {1}, ext : AnyExtension],
                          fault : {"none", "write", "corrupt", "interrupt"},
                          raw : RawTexts,
                          reply : {FailedReply}]
    /\ uploaded_files = <<uploaded_file>> /\ idx = 1
    /\ temp_files = {} /\ text = <<>> /\ exc = "none"
    /\ resume_text = <<>> /\ cleaned_text = <<>> /\ recleaned = <<>>
    /\ response = <<>> /\ parsed = NoResult /\ results = <<>>
    /\ toasts = <<>> /\ st_errors = <<>> /\ successful = <<>> /\ errors = <<>>

NextExtract == CreateTempFile \/ WriteTempFile \/ ExtractByExtension \/ UnlinkTempFile

SpecExtract == InitExtract /\ [][NextExtract]_vars

ExtractEnded == pc \in {"extracted", "raised"}

\* C2: once extract_resume_text has returned or raised, its temporary file
\* is no longer on disk, whatever the exit path.
C2_TempFileDeleted ==
    ExtractEnded => temp_files = {}

\* C5: for a document whose extension is neither pdf nor docx (and whose
\* content was written to the temporary file), the call ends in a failure
\* that tells it apart from an empty document, and the temporary file is gone.
C5_UnsupportedFormatFails ==
    (/\ ExtractEnded
     /\ Extension(uploaded_file) \notin {".pdf", ".docx"}
     /\ uploaded_file.fault # "write")
        => (pc = "raised" /\ exc = "UnsupportedFormat" /\ temp_files = {})

---------------------------------------------------------------------------
(* The Screen Resumes button: the screening loop and the result display *)

\* if not uploaded_files: st.warning(...)
Warn ==
    /\ pc = "button"
    /\ uploaded_files = <<>>
    /\ pc' = "warned"
    /\ UNCHANGED <<uploaded_files, idx, uploaded_file, temp_files, text, exc,
                   resume_text, cleaned_text, recleaned, response, parsed,
                   results, toasts, st_errors, successful, errors>>

\* else: results = []
StartBatch ==
    /\ pc = "button"
    /\ uploaded_files # <<>>
    /\ results' = <<>>
    /\ pc' = "loop"
    /\ UNCHANGED <<uploaded_files, idx, uploaded_file, temp_files, text, exc,
                   resume_text, cleaned_text, recleaned, response, parsed,
                   toasts, st_errors, successful, errors>>

\* for uploaded_file in uploaded_files: st.toast(...), then the call of
\* extract_resume_text
NextDocument ==
    /\ pc = "loop"
    /\ idx < Len(uploaded_files)
    /\ idx' = idx + 1
    /\ uploaded_file' = uploaded_files[idx + 1]
    /\ toasts' = Append(toasts, uploaded_files[idx + 1].name)
    /\ pc' = "extract"
    /\ UNCHANGED <<uploaded_files, temp_files, text, exc, resume_text,
                   cleaned_text, recleaned, response, parsed, results,
                   st_errors, successful, errors>>

\* resume_text = extract_resume_text(...); cleaned_text = clean_text(...)
CleanExtracted ==
    /\ pc = "extracted"
    /\ resume_text' = text
    /\ cleaned_text' = clean_text(text)
    /\ pc' = "check"
    /\ UNCHANGED <<uploaded_files, idx, uploaded_file, temp_files, text, exc,
                   recleaned, response, parsed, results, toasts, st_errors,
                   successful, errors>>

\* if not cleaned_text.strip(): st.error(...); continue
SkipNoText ==
    /\ pc = "check"
    /\ Strip(cleaned_text) = <<>>
    /\ st_errors' = Append(st_errors, [kind |-> "no_text", filename |-> uploaded_file.name])
    /\ pc' = "loop"
    /\ UNCHANGED <<uploaded_files, idx, uploaded_file, temp_files, text, exc,
                   resume_text, cleaned_text, recleaned, response, parsed,
                   results, toasts, successful, errors>>

\* analysis = analyze_resume(...); parsed = parse_analysis_response(analysis);
\* results.append({"filename": ..., **parsed})
AnalyzeAndParse ==
    /\ pc = "check"
    /\ Strip(cleaned_text) # <<>>
    /\ LET analysis == analyze_resume(cleaned_text, uploaded_file.reply)
           report == parse_analysis_response(analysis)
       IN  /\ response' = analysis
           /\ parsed' = report
           /\ results' = Append(results,
                                [filename |-> uploaded_file.name,
                                 name |-> report.name,
                                 score |-> report.score,
                                 found_skills |-> report.found_skills,
                                 missing_skills |-> report.missing_skills,
                                 experience |-> report.experience,
                                 education |-> report.education,
                                 verdict |-> report.verdict,
                                 raw_response |-> report.raw_response])
    /\ pc' = "loop"
    /\ UNCHANGED <<uploaded_files, idx, uploaded_file, temp_files, text, exc,
                   resume_text, cleaned_text, recleaned, toasts, st_errors,
                   successful, errors>>

\* a handler that lets the exception end the run
Reraise ==
    /\ pc = "raised"
    /\ pc' = "aborted"
    /\ UNCHANGED <<uploaded_files, idx, uploaded_file, temp_files, text, exc,
                   resume_text, cleaned_text, recleaned, response, parsed,
                   results, toasts, st_errors, successful, errors>>

\* except Exception as e: st.error(...); results.append({filename, error})
HandleException ==
    /\ pc = "raised"
    /\ st_errors' = Append(st_errors, [kind |-> "processing", filename |-> uploaded_file.name])
    /\ results' = Append(results, [filename |-> uploaded_file.name, error |-> exc])
    /\ exc' = "none"
    /\ pc' = "loop"
    /\ UNCHANGED <<uploaded_files, idx, uploaded_file, temp_files, text,
                   resume_text, cleaned_text, recleaned, response, parsed,
                   toasts, successful, errors>>

\* the list is exhausted
LoopExit ==
    /\ pc = "loop"
    /\ idx = Len(uploaded_files)
    /\ pc' = "display"
    /\ UNCHANGED <<uploaded_files, idx, uploaded_file, temp_files, text, exc,
                   resume_text, cleaned_text, recleaned, response, parsed,
                   results, toasts, st_errors, successful, errors>>

\* the reports without "error", sorted and rendered; then the records with it
Display ==
    /\ pc = "display"
    /\ successful' = SortByScoreDesc(SelectSeq(results, LAMBDA r : ~IsError(r)))
    /\ errors' = SelectSeq(results, IsError)
    /\ pc' = "done"
    /\ UNCHANGED <<uploaded_files, idx, uploaded_file, temp_files, text, exc,
                   resume_text, cleaned_text, recleaned, response, parsed,
                   results, toasts, st_errors>>

ReplyHigh ==
    [name |-> <<"a">>, score |-> <<"8", "7">>, found_skills |-> <<"a", ",", SP, "b">>,
     missing_skills |-> <<"b">>, experience |-> <<"5">>, education |-> <<"b", "a">>,
     verdict |-> <<"a", "a">>]
ReplyLow == [ReplyHigh EXCEPT !.score = <<"5">>]

\* what the endpoint does with a request
Replies ==
    {FailedReply,
     OkReply(<<NL>> \o ReplyWithout(ReplyHigh, {}) \o <<NL>>),
     OkReply(ReplyWithout(ReplyLow, {}))}

\* the uploader only accepts pdf and docx
UploadExtension == {".pdf", ".DOCX"}

\* the documents the uploader can hold at position k; a document whose text
\* never reaches the endpoint has no reply of its own
Documents(k) ==
    {d \in [name : [stem : {k}, ext : UploadExtension],
            fault : {"none", "write", "corrupt"},
            raw : RawTexts \ {<<>>},
            reply : Replies] :
        /\ d.fault # "none" => (d.raw = <<DASH>> /\ d.name.ext = ".pdf")
        /\ clean_text(d.raw) = <<>> => d.reply = FailedReply
        /\ (d.fault = "none" /\ clean_text(d.raw) = <<>>) => d.name.ext = ".DOCX"}

RECURSIVE Batches(_)
Batches(n) ==
    IF n = 0 THEN {<<>>}
    ELSE LET shorter == Batches(n - 1)
         IN  shorter \cup {Append(b, d) : b \in {c \in shorter : Len(c) = n - 1},
                                          d \in Documents(n)}

Init ==
    /\ pc = "button"
    /\ uploaded_files \in Batches(MaxDocs)
    /\ idx = 0 /\ uploaded_file = NoDoc
    /\ temp_files = {} /\ text = <<>> /\ exc = "none"
    /\ resume_text = <<>> /\ cleaned_text = <<>> /\ recleaned = <<>>
    /\ response = <<>> /\ parsed = NoResult /\ results = <<>>
    /\ toasts = <<>> /\ st_errors = <<>> /\ successful = <<>> /\ errors = <<>>

Next ==
    \/ Warn
    \/ StartBatch
    \/ NextDocument
    \/ CreateTempFile
    \/ WriteTempFile
    \/ ExtractByExtension
    \/ UnlinkTempFile
    \/ CleanExtracted
    \/ SkipNoText
    \/ AnalyzeAndParse
    \/ HandleException
    \/ LoopExit
    \/ Display

Spec == Init /\ [][Next]_vars

\* the filenames of the batch, in upload order
Filenames == [k \in 1..Len(uploaded_files) |-> uploaded_files[k].name]

\* steps the handler still has to take, at most: the documents not yet
\* visited, then the rest of the current loop body, then the display
StepsOfBody ==
    CASE pc = "extract" -> 7
      [] pc = "extract_write" -> 6
      [] pc = "extract_try" -> 5
      [] pc = "extract_finally" -> 4
      [] pc \in {"extracted", "raised"} -> 3
      [] pc = "check" -> 2
      [] OTHER -> 0

StepsLeft ==
    CASE pc = "button" -> 10 * Len(uploaded_files) + 3
      [] pc \in {"warned", "done"} -> 0
      [] pc = "display" -> 1
      [] OTHER -> 10 * (Len(uploaded_files) - idx) + StepsOfBody + 2

\* the steps of the handler other than the analysis of a document with text
StepWithoutAnalysis ==
    \/ Warn \/ StartBatch \/ NextDocument
    \/ CreateTempFile \/ WriteTempFile \/ ExtractByExtension \/ UnlinkTempFile
    \/ CleanExtracted \/ SkipNoText \/ HandleException \/ LoopExit \/ Display

\* the step after a failure or an analysis goes back to the loop header and
\* leaves the position of the loop alone
BackToLoop == (pc \in {"raised", "check"}) => (pc' = "loop" /\ idx' = idx)

\* C9: a failure of one document never ends the batch: whatever happened to
\* the documents so far the handler has a next step until the results are
\* displayed (at the analysis of a document with text that step is
\* AnalyzeAndParse, which has no other condition), the step after a failure
\* or an analysis goes back to the loop header without moving the position,
\* every step brings the display nearer, and at the display every document
\* has been visited exactly once, in upload order.
C9_FailureNeverAbortsBatch ==
    /\ [](pc \notin {"warned", "done"} =>
            \/ ENABLED StepWithoutAnalysis
            \/ pc = "check" /\ Strip(cleaned_text) # <<>>)
    /\ [][BackToLoop]_vars
    /\ [][StepsLeft' < StepsLeft]_vars
    /\ [](pc \in {"display", "done"} => toasts = Filenames)

\* a batch with a failing document followed by another document is displayed
C9_Witness ==
    /\ pc = "display"
    /\ \E k \in 1..(Len(uploaded_files) - 1) :
        /\ uploaded_files[k].fault = "write"
        /\ \E r \in 1..Len(results) : results[r].filename = uploaded_files[k + 1].name


\* the reports the loop collected, in the order it collected them
Collected == SelectSeq(results, LAMBDA r : ~IsError(r))

\* how many records of the sequence s are for the file called n
CountFor(s, n) == Cardinality({k \in 1..Len(s) : s[k].filename = n})

\* C10: the reports are displayed in non-increasing order of score, and they
\* are exactly the reports the loop collected: none added, lost or doubled.
C10_DisplayedByScore ==
    pc = "done" =>
        /\ \A k \in 1..(Len(successful) - 1) :
              successful[k].score >= successful[k + 1].score
        /\ Len(successful) = Len(Collected)
        /\ \A k \in 1..Len(Collected) :
              /\ CountFor(successful, Collected[k].filename) = 1
              /\ \E j \in 1..Len(successful) : successful[j] = Collected[k]

\* reports collected in an order that is not the order of their scores have
\* been displayed
C10_Witness ==
    /\ pc = "done"
    /\ \E i, j \in 1..Len(Collected) : i < j /\ Collected[i].score < Collected[j].score

\* C1: after the display every uploaded document has exactly one record, a
\* report or a failed record with its filename; a document without text has
\* a failed record.
C1_EveryDocumentAccounted ==
    pc = "done" =>
        \A k \in 1..Len(uploaded_files) :
            /\ CountFor(successful, uploaded_files[k].name)
                 + CountFor(errors, uploaded_files[k].name) = 1
            /\ (uploaded_files[k].fault # "write" /\ clean_text(uploaded_files[k].raw) = <<>>)
                 => CountFor(errors, uploaded_files[k].name) = 1

\* C4: a document whose request to the endpoint failed has no report among
\* the successful ones and has a failed record.
C4_FailedRequestIsFailure ==
    pc = "done" =>
        \A k \in 1..Len(uploaded_files) :
            (/\ uploaded_files[k].fault = "none"
             /\ clean_text(uploaded_files[k].raw) # <<>>
             /\ ~uploaded_files[k].reply.ok)
                => /\ CountFor(successful, uploaded_files[k].name) = 0
                   /\ CountFor(errors, uploaded_files[k].name) = 1

====
